---- MODULE Spec2Model ----
(***************************************************************************)
(* Model of the software-modem crate: the QAM-16 codec (src/qam.rs) and    *)
(* the OFDM modulator (src/ofdm/modulator.rs, src/ofdm/mod.rs).            *)
(*                                                                         *)
(* Numbers.  A Complex32 value (and an f32 sample, a complex with zero     *)
(* imaginary part) is represented exactly as an element of the ring        *)
(* Z[x]/(x^n + 1), n a power of two, written as the sequence of its n      *)
(* integer coefficients <<c0, ..., c(n-1)>>.  x stands for the primitive   *)
(* 2n-th root of unity exp(i*pi/n), so x^(n/2) is the imaginary unit and   *)
(* the twiddle factors of a length-2n transform are the powers of x.       *)
(* With n = 2 the ring is the Gaussian integers re + im*i.                 *)
(***************************************************************************)
EXTENDS Integers, Sequences, FiniteSets, TLC

VARIABLES
    pc,          \* position of the caller: which call ran last and how it ended
    config,      \* OFDMModulatorConfig handed to OFDMModulator::new
    constants,   \* OFDMModulatorConstants / OFDMConstants built at construction
    data,        \* the byte slice handed to modulate
    symbols,     \* the constellation points (QAMModem::modulate result / demodulate input)
    input,       \* the frequency-domain vector of modulate_ofdm_symbol
    fftOut,      \* the transform output vector of modulate_ofdm_symbol
    output,      \* the caller's output sample buffer
    written,     \* positions of the output buffer written by the call
    result       \* byte vector returned by demodulation

vars == <<pc, config, constants, data, symbols, input, fftOut, output, written, result>>

(***************************************************************************)
(* Exact arithmetic in Z[x]/(x^n + 1)                                      *)
(***************************************************************************)
RECURSIVE SumTo(_, _)
\* f[1] + ... + f[m]
SumTo(m, f) == IF m = 0 THEN 0 ELSE f[m] + SumTo(m - 1, f)

\* the sequence with the elements of f, every element evaluated once
Vec(f) == f \o <<>>

RZero(n) == Vec([k \in 1..n |-> 0])

\* the integer v as a ring element
RInt(n, v) == Vec([k \in 1..n |-> IF k = 1 THEN v ELSE 0])

\* the complex number re + im*i as a ring element (n >= 2)
RComplex(n, re, im) ==
    Vec([k \in 1..n |-> IF k = 1 THEN re ELSE IF k = (n \div 2) + 1 THEN im ELSE 0])

RAdd(a, b) == Vec([k \in 1..Len(a) |-> a[k] + b[k]])
RSub(a, b) == Vec([k \in 1..Len(a) |-> a[k] - b[k]])
RNeg(a) == Vec([k \in 1..Len(a) |-> 0 - a[k]])
RScale(a, v) == Vec([k \in 1..Len(a) |-> v * a[k]])

\* a * x^m for any integer m >= 0 (x^n = -1)
RTwiddle(a, m) ==
    LET n == Len(a)
        mm == m % (2 * n)
    IN Vec([k \in 1..n |->
          LET s == (k - 1) - mm
          IN IF s >= 0 THEN a[s + 1]
             ELSE IF s + n >= 0 THEN 0 - a[s + n + 1]
             ELSE a[s + 2 * n + 1]])

\* complex conjugate: conj(x^k) = x^(-k) = -x^(n-k)
RConj(a) ==
    LET n == Len(a)
    IN Vec([k \in 1..n |-> IF k = 1 THEN a[1] ELSE 0 - a[n - k + 2]])

RMul(a, b) ==
    LET n == Len(a)
    IN Vec([k \in 1..n |->
          SumTo(n, [i \in 1..n |->
              LET j == (k - 1) - (i - 1)
              IN IF j >= 0 THEN a[i] * b[j + 1] ELSE 0 - a[i] * b[j + n + 1]])])

RECURSIVE RSum(_, _, _)
\* f[1] + ... + f[m] in the ring of degree n
RSum(n, m, f) == IF m = 0 THEN RZero(n) ELSE RAdd(f[m], RSum(n, m - 1, f))

\* the even-power coefficients of a, as an element of the ring of degree n/2
REven(a) == Vec([k \in 1..(Len(a) \div 2) |-> a[2 * k - 1]])
\* a with its even-power coefficients cleared
ROdd(a) == Vec([k \in 1..Len(a) |-> IF k % 2 = 0 THEN a[k] ELSE 0])

SgnInt(v) == IF v > 0 THEN 1 ELSE IF v < 0 THEN 0 - 1 ELSE 0

Abs(v) == IF v < 0 THEN 0 - v ELSE v

RECURSIVE Gcd(_, _)
Gcd(u, v) == IF v = 0 THEN u ELSE Gcd(v, u % v)

RECURSIVE GcdTo(_, _)
\* gcd of |a[1]|, ..., |a[m]|
GcdTo(m, a) == IF m = 0 THEN 0 ELSE Gcd(Abs(a[m]), GcdTo(m - 1, a))

\* a divided by the gcd of its coefficients: a positive multiple of a with
\* the same sign and the smallest coefficients
RReduce(a) ==
    LET g == GcdTo(Len(a), a)
    IN IF g <= 1 THEN a ELSE Vec([k \in 1..Len(a) |-> a[k] \div g])

RECURSIVE RSign(_)
\* sign (-1, 0, 1) of a real ring element.  a = E + F with E the even and F
\* the odd powers; both are real, F*c with c = x + 1/x = 2cos(pi/n) > 0 and
\* F*F have even powers only, so every comparison descends to degree n/2.
RSign(a) ==
    LET n == Len(a)
    IN IF n = 1 THEN SgnInt(a[1])
       ELSE
         LET r == RReduce(a)
             E == REven(r)
             F == ROdd(r)
             c == Vec([k \in 1..n |-> IF n > 2 /\ k = 2 THEN 1
                                      ELSE IF n > 2 /\ k = n THEN 0 - 1 ELSE 0])
             sE == RSign(E)
             sF == IF F = RZero(n) THEN 0 ELSE RSign(REven(RMul(F, c)))
         IN IF sF = 0 THEN sE
            ELSE IF sE = 0 \/ sE = sF THEN sF
            ELSE sE * RSign(RSub(RMul(E, E), REven(RMul(F, F))))

\* a < b for real ring elements
RLess(a, b) == RSign(RSub(a, b)) < 0

(***************************************************************************)
(* Bounds of the model                                                     *)
(***************************************************************************)
\* a Complex32 value v handed to the stand-alone codec is the ring element v * GridUnit
GridUnit == 2
\* received points have coordinates of absolute value at most GridReach
GridReach == 4
\* longest byte slice / half of the longest point sequence of the codec runs
MaxDataLen == 2

Bytes == 0..255
\* bytes used to fill the longer slices: the ASCII of "Hi", and all-zero / all-one / mixed nibbles
SampleBytes == {72, 105, 165}

(***************************************************************************)
(* QAM-16 codec, src/qam.rs                                                *)
(***************************************************************************)
\* QAM16_LOOKUP[i-1] as <<re, im>>
QAM16_LOOKUP ==
    << <<1, 1>>,   <<1, 3>>,   <<3, 1>>,   <<3, 3>>,
       <<1, -1>>,  <<1, -3>>,  <<3, -1>>,  <<3, -3>>,
       <<-1, 1>>,  <<-1, 3>>,  <<-3, 1>>,  <<-3, 3>>,
       <<-1, -1>>, <<-1, -3>>, <<-3, -1>>, <<-3, -3>> >>

\* QAM16_LOOKUP[idx] as a ring element of degree n, in units of 1/unit
Qam16Point(n, unit, idx) ==
    RComplex(n, unit * QAM16_LOOKUP[idx + 1][1], unit * QAM16_LOOKUP[idx + 1][2])

\* QAMModem::bits_per_symbol for QAMOrder::QAM16
QamBitsPerSymbol == 4

\* the shift by four bits left out
first_nibble_unshifted(byte) == byte % 16

first_nibble(byte) == (byte \div 16) % 16
second_nibble(byte) == byte % 16

\* QAMModem::modulate: two table points per byte
QamModulate(n, unit, bytes) ==
    Vec([k \in 1..(2 * Len(bytes)) |->
        IF k % 2 = 1 THEN Qam16Point(n, unit, first_nibble(bytes[(k + 1) \div 2]))
        ELSE Qam16Point(n, unit, second_nibble(bytes[k \div 2]))])

\* distance(a, b), squared: |a - b|^2 as a real ring element.  The code takes
\* the square root, which is monotone; only the order of distances is used.
distance(a, b) == LET d == RSub(a, b) IN RMul(d, RConj(d))

RECURSIVE MinByLast(_, _, _)
\* the fold replacing its minimum also on an equal distance: the last minimum wins
MinByLast(symbol, unit, k) ==
    IF k = 0 THEN 0
    ELSE LET n == Len(symbol)
             best == MinByLast(symbol, unit, k - 1)
             db == distance(symbol, Qam16Point(n, unit, best))
             dk == distance(symbol, Qam16Point(n, unit, k))
         IN IF best \in 0..(k - 1) /\ ~RLess(db, dk) THEN k ELSE best

RECURSIVE MinBy(_, _, _)
\* Iterator::min_by over the enumerated table entries 0..k: the fold keeps
\* the minimum of the entries before k and replaces it by entry k only when
\* entry k compares strictly smaller, so the first of several minima wins.
\* (best is an index below k; stating it first has it computed once.)
MinBy(symbol, unit, k) ==
    IF k = 0 THEN 0
    ELSE LET n == Len(symbol)
             best == MinBy(symbol, unit, k - 1)
             db == distance(symbol, Qam16Point(n, unit, best))
             dk == distance(symbol, Qam16Point(n, unit, k))
         IN IF best \in 0..(k - 1) /\ RLess(dk, db) THEN k ELSE best

\* the nibble pushed for one symbol
QamDecodeSymbol(symbol, unit) == MinBy(symbol, unit, 15)

\* QAMModem::demodulate: ok = FALSE is the panic "Invalid chunk size"
QamDemodulate(syms, unit) ==
    LET nibbles == Vec([k \in 1..Len(syms) |-> QamDecodeSymbol(syms[k], unit)])
        nchunks == (Len(syms) + 1) \div 2
    IN IF Len(syms) % 2 # 0
       THEN [ok |-> FALSE, bytes |-> <<>>]
       ELSE [ok |-> TRUE,
             bytes |-> Vec([c \in 1..nchunks |->
                              ((nibbles[2 * c - 1] * 16) % 256) + nibbles[2 * c]])]

(***************************************************************************)
(* OFDM modulator, src/ofdm/modulator.rs and src/ofdm/mod.rs               *)
(***************************************************************************)
PILOT_VALUE_TO_BE_CHANGED == <<1, 0>>

\* (1..num_subcarriers) as a sequence
SubcarrierRange(num_subcarriers) == Vec([k \in 1..(num_subcarriers - 1) |-> k])

\* the range starting at bin 0
PilotSubcarrierIndicesFromZero(num_subcarriers, pilot_subcarrier_every) ==
    SelectSeq(Vec([k \in 1..num_subcarriers |-> k - 1]),
              LAMBDA i : i % pilot_subcarrier_every = 0)

\* (1..num_subcarriers).filter(|&i| i % pilot_subcarrier_every == 0).collect()
PilotSubcarrierIndices(num_subcarriers, pilot_subcarrier_every) ==
    SelectSeq(SubcarrierRange(num_subcarriers),
              LAMBDA i : i % pilot_subcarrier_every = 0)

\* the range closed at num_subcarriers
DataSubcarrierIndicesInclusive(num_subcarriers, pilot_subcarrier_every) ==
    SelectSeq(Vec([k \in 1..num_subcarriers |-> k]),
              LAMBDA i : i % pilot_subcarrier_every # 0)

\* (1..num_subcarriers).filter(|&i| i % pilot_subcarrier_every != 0).collect()
DataSubcarrierIndices(num_subcarriers, pilot_subcarrier_every) ==
    SelectSeq(SubcarrierRange(num_subcarriers),
              LAMBDA i : i % pilot_subcarrier_every # 0)

\* the OFDMModulatorConstants built by OFDMModulator::new
ModulatorConstants(cfg) ==
    LET pilot_subcarrier_indices ==
            PilotSubcarrierIndices(cfg.num_subcarriers, cfg.pilot_subcarrier_every)
        data_subcarrier_indices ==
            DataSubcarrierIndices(cfg.num_subcarriers, cfg.pilot_subcarrier_every)
        num_data_subcarriers == Len(data_subcarrier_indices)
    IN [num_data_subcarriers     |-> num_data_subcarriers,
        num_pilot_subcarriers    |-> Len(pilot_subcarrier_indices),
        num_subcarriers          |-> cfg.num_subcarriers,
        cyclic_prefix_length     |-> cfg.cyclic_prefix_length,
        data_subcarrier_indices  |-> data_subcarrier_indices,
        pilot_subcarrier_indices |-> pilot_subcarrier_indices,
        bits_per_subcarrier      |-> QamBitsPerSymbol,
        bits_per_symbol          |-> num_data_subcarriers * QamBitsPerSymbol]

\* OFDMConstants::new of src/ofdm/mod.rs
OFDMConstantsNew(num_subcarriers, pilot_subcarrier_every, cyclic_prefix_length, bits_per_subcarrier) ==
    LET pilot_subcarrier_indices ==
            SelectSeq(SubcarrierRange(num_subcarriers),
                      LAMBDA i : i % pilot_subcarrier_every = 0)
        data_subcarrier_indices ==
            SelectSeq(SubcarrierRange(num_subcarriers),
                      LAMBDA i : i % pilot_subcarrier_every # 0)
        num_data_subcarriers == Len(data_subcarrier_indices)
    IN [num_data_subcarriers     |-> num_data_subcarriers,
        num_pilot_subcarriers    |-> Len(pilot_subcarrier_indices),
        num_subcarriers          |-> num_subcarriers,
        cyclic_prefix_length     |-> cyclic_prefix_length,
        data_subcarrier_indices  |-> data_subcarrier_indices,
        pilot_subcarrier_indices |-> pilot_subcarrier_indices,
        bits_per_subcarrier      |-> bits_per_subcarrier,
        bits_per_symbol          |-> num_data_subcarriers * bits_per_subcarrier]

\* OFDMModulator::get_symbol_length
get_symbol_length(c) == 2 * c.num_subcarriers + c.cyclic_prefix_length

\* the byte count rounded up instead of down
ExpectedDataLenCeil(c) == (c.bits_per_symbol + 7) \div 8

\* the data length modulate_buffer_as_symbol insists on: bits_per_symbol / 8
ExpectedDataLen(c) == c.bits_per_symbol \div 8

\* ComplexToReal::process of the plan for 2 * num_subcarriers samples: the
\* unnormalised inverse transform of the half spectrum X[0..N], sample t being
\*   X[0] + (-1)^t X[N] + sum over 0 < k < N of X[k] w^(kt) + conj(X[k] w^(kt))
InverseTransform(X) ==
    LET N == Len(X) - 1
    IN Vec([s \in 1..(2 * N) |->
          LET t == s - 1
              mid == RSum(N, N - 1,
                          [k \in 1..(N - 1) |->
                              LET T == RTwiddle(X[k + 1], k * t)
                              IN RAdd(T, RConj(T))])
          IN RAdd(RAdd(X[1], IF t % 2 = 0 THEN X[N + 1] ELSE RNeg(X[N + 1])), mid)])

\* the frequency-domain vector after the two assignment loops of
\* modulate_ofdm_symbol; the data loop stops at the first index that has no
\* point (qam_symbols[i] out of bounds) and the pilot loop then never runs
AssembleInput(c, qam_symbols) ==
    LET N == c.num_subcarriers
        nd == Len(c.data_subcarrier_indices)
        complete == Len(qam_symbols) >= nd
        DataPos(b) == {i \in 1..nd : c.data_subcarrier_indices[i] = b /\ i <= Len(qam_symbols)}
        IsPilot(b) == \E i \in 1..Len(c.pilot_subcarrier_indices) :
                          c.pilot_subcarrier_indices[i] = b
    IN Vec([k \in 1..(N + 1) |->
          LET b == k - 1
          IN IF complete /\ IsPilot(b)
             THEN RComplex(N, PILOT_VALUE_TO_BE_CHANGED[1], PILOT_VALUE_TO_BE_CHANGED[2])
             ELSE IF DataPos(b) # {}
             THEN qam_symbols[CHOOSE i \in DataPos(b) : \A j \in DataPos(b) : j <= i]
             ELSE RZero(N)])

\* modulate_buffer_as_symbol(data, output_buffer) with modulate_ofdm_symbol
\* inlined: how the call ends and what it leaves behind.  A panic unwinds at
\* the statement that raised it; the writes made before it stay.
ModulateBufferAsSymbol(c, bytes, out) ==
    LET N == c.num_subcarriers
        cp == c.cyclic_prefix_length
        qam_symbols == QamModulate(N, 1, bytes)
        freq == AssembleInput(c, qam_symbols)
        output_buffer == InverseTransform(freq)
        body == get_symbol_length(c) - cp
        out1 == Vec([k \in 1..Len(out) |-> IF k <= body THEN output_buffer[k] ELSE out[k]])
        out2 == Vec([k \in 1..Len(out) |-> IF k <= body THEN output_buffer[k]
                                           ELSE output_buffer[k - body]])
    IN IF Len(bytes) # ExpectedDataLen(c)
       THEN [end |-> "panic_data_length", qam_symbols |-> <<>>, input |-> <<>>,
             fftOut |-> <<>>, output |-> out, written |-> {}]
       ELSE IF Len(qam_symbols) < Len(c.data_subcarrier_indices)
       THEN [end |-> "panic_symbol_index", qam_symbols |-> qam_symbols, input |-> freq,
             fftOut |-> <<>>, output |-> out, written |-> {}]
       ELSE IF body > Len(out)
       THEN [end |-> "panic_slice_end", qam_symbols |-> qam_symbols, input |-> freq,
             fftOut |-> output_buffer, output |-> out, written |-> {}]
       ELSE IF cp > Len(output_buffer)
       THEN [end |-> "panic_prefix_range", qam_symbols |-> qam_symbols, input |-> freq,
             fftOut |-> output_buffer, output |-> out1, written |-> 1..body]
       ELSE IF Len(out) - body # cp
       THEN [end |-> "panic_copy_length", qam_symbols |-> qam_symbols, input |-> freq,
             fftOut |-> output_buffer, output |-> out1, written |-> 1..body]
       ELSE [end |-> "modulated", qam_symbols |-> qam_symbols, input |-> freq,
             fftOut |-> output_buffer, output |-> out2, written |-> 1..Len(out)]

(***************************************************************************)
(* OFDM demodulator: src/ofdm/mod.rs declares `pub mod demodulator`, the   *)
(* file is not part of the sources; modelled from the design (4.4, 6)      *)
(***************************************************************************)
\* forward(real_samples[2N]) -> complex_bins[N+1], unnormalised:
\* bin k = sum over t of x[t] w^(-kt); forward(inverse(X)) = 2N * X
ForwardTransform(x) ==
    LET N == Len(x) \div 2
    IN Vec([b \in 1..(N + 1) |->
          RSum(N, 2 * N,
               [s \in 1..(2 * N) |->
                   RTwiddle(x[s], (2 * N) - (((b - 1) * (s - 1)) % (2 * N)))])])

\* demodulate(in_): strip the first cyclic_prefix_length samples, transform
\* the remaining 2N, read the data bins in ascending order, decode.  The bins
\* carry the factor 2N of the unnormalised transform pair, so the decoder
\* reads them in units of 1/(2N).
DemodulateSymbol(c, in_) ==
    LET N == c.num_subcarriers
        cp == c.cyclic_prefix_length
        body == Vec([k \in 1..(2 * N) |-> in_[cp + k]])
        bins == ForwardTransform(body)
        points == Vec([i \in 1..Len(c.data_subcarrier_indices) |->
                          bins[c.data_subcarrier_indices[i] + 1]])
    IN IF Len(in_) # get_symbol_length(c)
       THEN [ok |-> FALSE, bytes |-> <<>>]
       ELSE QamDemodulate(points, 2 * N)

(***************************************************************************)
(* Modulator runs: construct, modulate one symbol, demodulate it           *)
(***************************************************************************)
\* transform sizes of the runs (the ring needs a power of two)
SubcarrierChoices == {4, 8}
MaxCyclicPrefix == 2
MaxPilotEvery == 4

Configs ==
    [num_subcarriers : SubcarrierChoices,
     cyclic_prefix_length : 0..MaxCyclicPrefix,
     pilot_subcarrier_every : 2..MaxPilotEvery]

RECURSIVE SeqsOfLen(_, _)
SeqsOfLen(S, L) ==
    IF L = 0 THEN {<<>>}
    ELSE {Append(q, e) : q \in SeqsOfLen(S, L - 1), e \in S}

\* byte slices of length L: every byte when L = 1, the sample bytes beyond
BytesOfLen(L) == IF L = 1 THEN SeqsOfLen(Bytes, 1) ELSE SeqsOfLen(SampleBytes, L)

\* the slices a caller hands in: the expected length, one less, one more
Payloads(c) ==
    UNION {BytesOfLen(L) : L \in {l \in (ExpectedDataLen(c) - 1)..(ExpectedDataLen(c) + 1) : l >= 0}}

\* the lengths of the caller's output buffer: from one short of the
\* transform output to one more than the symbol length
OutputLengths(c) == (2 * c.num_subcarriers - 1)..(get_symbol_length(c) + 1)

\* vec![0.0; len]
ZeroBuffer(n, len) == Vec([k \in 1..len |-> RZero(n)])

Init ==
    /\ pc = "start"
    /\ config \in Configs
    /\ constants = <<>>
    /\ data = <<>>
    /\ symbols = <<>>
    /\ input = <<>>
    /\ fftOut = <<>>
    /\ output = <<>>
    /\ written = {}
    /\ result = <<>>

\* OFDMModulator::new(config)
New ==
    /\ pc = "start"
    /\ constants' = ModulatorConstants(config)
    /\ pc' = "constructed"
    /\ UNCHANGED <<config, data, symbols, input, fftOut, output, written, result>>

\* modulate_buffer_as_symbol(&data, &mut output_buffer)
Modulate ==
    /\ pc = "constructed"
    /\ \E bytes \in Payloads(constants), len \in OutputLengths(constants) :
         LET r == ModulateBufferAsSymbol(constants, bytes,
                                         ZeroBuffer(constants.num_subcarriers, len))
         IN /\ data' = bytes
            /\ symbols' = r.qam_symbols
            /\ input' = r.input
            /\ fftOut' = r.fftOut
            /\ output' = r.output
            /\ written' = r.written
            /\ pc' = r.end
    /\ UNCHANGED <<config, constants, result>>

\* demodulate(&output_buffer) of the symbol just modulated
Demodulate ==
    /\ pc = "modulated"
    /\ LET r == DemodulateSymbol(constants, output)
       IN /\ result' = r.bytes
          /\ pc' = IF r.ok THEN "demodulated" ELSE "panic_demodulate"
    /\ UNCHANGED <<config, constants, data, symbols, input, fftOut, output, written>>

Next == New \/ Modulate \/ Demodulate

Spec == Init /\ [][Next]_vars

(***************************************************************************)
(* Construction runs: the allocation for every configuration up to the     *)
(* documented 64-subcarrier one, by both constructors                      *)
(***************************************************************************)
MaxSubcarriers == 64
MaxAllocCyclicPrefix == 4
MaxAllocPilotEvery == 5

AllocConfigs ==
    [num_subcarriers : 4..MaxSubcarriers,
     cyclic_prefix_length : 0..MaxAllocCyclicPrefix,
     pilot_subcarrier_every : 2..MaxAllocPilotEvery]

InitAlloc ==
    /\ pc = "start"
    /\ config \in AllocConfigs
    /\ constants = <<>>
    /\ data = <<>>
    /\ symbols = <<>>
    /\ input = <<>>
    /\ fftOut = <<>>
    /\ output = <<>>
    /\ written = {}
    /\ result = <<>>

\* OFDMConstants::new(num_subcarriers, pilot_subcarrier_every,
\*                    cyclic_prefix_length, qam_order, bits_per_subcarrier)
ConstantsNew ==
    /\ pc = "start"
    /\ constants' = OFDMConstantsNew(config.num_subcarriers, config.pilot_subcarrier_every,
                                     config.cyclic_prefix_length, QamBitsPerSymbol)
    /\ pc' = "constants_built"
    /\ UNCHANGED <<config, data, symbols, input, fftOut, output, written, result>>

NextAlloc == New \/ ConstantsNew

SpecAlloc == InitAlloc /\ [][NextAlloc]_vars

(***************************************************************************)
(* Codec runs: modulate a byte slice and demodulate the points, or         *)
(* demodulate points received from elsewhere                               *)
(***************************************************************************)
QamPayloads == UNION {BytesOfLen(L) : L \in 0..MaxDataLen}

\* received points: every point of the grid of step 1/GridUnit
Grid ==
    {RComplex(2, re, im) : re \in (0 - GridReach * GridUnit)..(GridReach * GridUnit),
                           im \in (0 - GridReach * GridUnit)..(GridReach * GridUnit)}

\* the points (0,0), (2,2) and (-3,1)
SamplePoints ==
    {RComplex(2, GridUnit * v[1], GridUnit * v[2]) : v \in {<<0, 0>>, <<2, 2>>, <<0 - 3, 1>>}}

\* one or two points with one of them arbitrary, and longer runs of sample points
ReceivedSeqs ==
    {<<p>> : p \in Grid}
    \cup {<<p, q>> : p \in Grid, q \in SamplePoints}
    \cup {<<q, p>> : p \in Grid, q \in SamplePoints}
    \cup UNION {SeqsOfLen(SamplePoints, L) : L \in 0..(2 * MaxDataLen - 1)}

InitQam ==
    /\ pc = "qam_start"
    /\ data \in QamPayloads
    /\ config = <<>>
    /\ constants = <<>>
    /\ symbols = <<>>
    /\ input = <<>>
    /\ fftOut = <<>>
    /\ output = <<>>
    /\ written = {}
    /\ result = <<>>

\* modem.modulate(data)
QamModulateCall ==
    /\ pc = "qam_start"
    /\ symbols' = QamModulate(2, GridUnit, data)
    /\ pc' = "qam_modulated"
    /\ UNCHANGED <<config, constants, data, input, fftOut, output, written, result>>

\* points arrive from a channel instead
QamReceive ==
    /\ pc = "qam_start"
    /\ data = <<>>
    /\ symbols' \in ReceivedSeqs
    /\ pc' = "qam_received"
    /\ UNCHANGED <<config, constants, data, input, fftOut, output, written, result>>

\* modem.demodulate(&symbols)
QamDemodulateCall ==
    /\ pc \in {"qam_modulated", "qam_received"}
    /\ LET r == QamDemodulate(symbols, GridUnit)
       IN /\ result' = r.bytes
          /\ pc' = IF pc = "qam_modulated"
                   THEN (IF r.ok THEN "qam_roundtrip" ELSE "qam_roundtrip_panic")
                   ELSE (IF r.ok THEN "qam_decoded" ELSE "qam_decode_panic")
    /\ UNCHANGED <<config, constants, data, symbols, input, fftOut, output, written>>

NextQam == QamModulateCall \/ QamReceive \/ QamDemodulateCall

SpecQam == InitQam /\ [][NextQam]_vars

(***************************************************************************)
(* Properties                                                              *)
(***************************************************************************)
Range(q) == {q[k] : k \in 1..Len(q)}
Ascending(q) == \A k \in 1..(Len(q) - 1) : q[k] < q[k + 1]
Built == pc \in {"constructed", "constants_built"}
AfterModulate == pc \notin {"start", "constructed"}
Capacity == constants.bits_per_symbol \div 8

\* C1: demodulating the buffer produced by modulate returns the payload byte
\* for byte
C1_RoundTrip == pc = "demodulated" => result = data

\* C2: the first cyclic_prefix_length samples of the output are the last
\* cyclic_prefix_length samples of the transform output, and the transform
\* output follows them in order
C2_PrefixFromTail ==
    pc = "modulated" =>
        LET cp == constants.cyclic_prefix_length
            len == 2 * constants.num_subcarriers
        IN /\ \A k \in 1..cp : output[k] = fftOut[len - cp + k]
           /\ \A k \in 1..len : output[cp + k] = fftOut[k]

\* C3: data bins, pilot bins and {0, num_subcarriers} partition the bins
\* 0..num_subcarriers; a bin of the enumerated range is a pilot exactly when
\* it is a multiple of the pilot interval and a data bin otherwise; both
\* sequences ascend strictly
C3_AllocationPartition ==
    Built =>
        LET N == config.num_subcarriers
            D == Range(constants.data_subcarrier_indices)
            P == Range(constants.pilot_subcarrier_indices)
        IN /\ D \cap P = {}
           /\ D \cap {0, N} = {}
           /\ P \cap {0, N} = {}
           /\ D \cup P \cup {0, N} = 0..N
           /\ \A i \in 1..(N - 1) :
                 /\ i \in P <=> i % config.pilot_subcarrier_every = 0
                 /\ i \in D <=> i % config.pilot_subcarrier_every # 0
           /\ Ascending(constants.data_subcarrier_indices)
           /\ Ascending(constants.pilot_subcarrier_indices)
           /\ constants.num_data_subcarriers = Cardinality(D)
           /\ constants.num_pilot_subcarriers = Cardinality(P)

C3_Witness ==
    /\ pc = "constants_built"
    /\ config.num_subcarriers = 10
    /\ config.pilot_subcarrier_every = 3
    /\ constants.pilot_subcarrier_indices = <<3, 6, 9>>
    /\ constants.data_subcarrier_indices = <<1, 2, 4, 5, 7, 8>>

\* C4: a modulator is constructed only from a configuration whose data-bit
\* count is a multiple of 8
C4_FractionalCapacityRejected ==
    pc = "constructed" =>
        (constants.num_data_subcarriers * constants.bits_per_subcarrier) % 8 = 0

\* C5: a payload whose length differs from bits_per_symbol / 8 ends the call
\* with the data-length panic, no point produced and the output buffer as it
\* was; a payload of that length passes the check
C5_PayloadLengthCheck ==
    AfterModulate =>
        /\ Len(data) # Capacity =>
              /\ pc = "panic_data_length"
              /\ symbols = <<>>
              /\ written = {}
              /\ output = ZeroBuffer(constants.num_subcarriers, Len(output))
        /\ Len(data) = Capacity => pc # "panic_data_length"

C5_Witness ==
    /\ pc = "panic_data_length"
    /\ Capacity = 2
    /\ Len(data) = 3
    /\ Len(output) = get_symbol_length(constants)

\* C6: a modulate call either succeeds having written every sample of an
\* output buffer of symbol_length() samples, or fails having written none
C6_NoPartialSuccess ==
    AfterModulate =>
        IF pc \in {"modulated", "demodulated", "panic_demodulate"}
        THEN /\ Len(output) = get_symbol_length(constants)
             /\ written = 1..Len(output)
        ELSE /\ written = {}
             /\ output = ZeroBuffer(constants.num_subcarriers, Len(output))

C8_Scenario45 ==
    (Built /\ config = [num_subcarriers |-> 64, cyclic_prefix_length |-> 4,
                        pilot_subcarrier_every |-> 4]) =>
        /\ Range(constants.data_subcarrier_indices) = {i \in 1..63 : i % 4 # 0}
        /\ constants.num_data_subcarriers = 45
        /\ Range(constants.pilot_subcarrier_indices) = {i \in 1..63 : i % 4 = 0}
        /\ constants.num_pilot_subcarriers = 15
        /\ Capacity = 22
        /\ get_symbol_length(constants) = 132

\* C8 amended: 64 subcarriers with a pilot every 4 give the 48 bins of 1..63
\* that are not multiples of 4 as data bins, the 15 multiples of 4 as pilot
\* bins, 24 payload bytes and 132 samples
C8_Scenario48 ==
    (Built /\ config = [num_subcarriers |-> 64, cyclic_prefix_length |-> 4,
                        pilot_subcarrier_every |-> 4]) =>
        /\ Range(constants.data_subcarrier_indices) = {i \in 1..63 : i % 4 # 0}
        /\ Len(constants.data_subcarrier_indices) = 48
        /\ constants.num_data_subcarriers = 48
        /\ Range(constants.pilot_subcarrier_indices) = {i \in 1..63 : i % 4 = 0}
        /\ Len(constants.pilot_subcarrier_indices) = 15
        /\ constants.num_pilot_subcarriers = 15
        /\ constants.bits_per_symbol = 192
        /\ Capacity = 24
        /\ get_symbol_length(constants) = 132

C8_Witness ==
    /\ pc = "constructed"
    /\ config = [num_subcarriers |-> 64, cyclic_prefix_length |-> 4,
                 pilot_subcarrier_every |-> 4]
    /\ constants.num_data_subcarriers = 48

\* C9: a payload that passes the length check yields exactly one point per
\* data bin, so the assembly completes; the k-th data bin then holds the k-th
\* point, every pilot bin the pilot value, bins 0 and num_subcarriers zero
C9_OnePointPerDataBin ==
    (AfterModulate /\ pc # "panic_data_length") =>
        LET N == constants.num_subcarriers
            D == constants.data_subcarrier_indices
            P == constants.pilot_subcarrier_indices
        IN /\ Len(symbols) = Len(D)
           /\ pc # "panic_symbol_index"
           /\ Len(input) = N + 1
           /\ \A k \in 1..Len(D) : input[D[k] + 1] = symbols[k]
           /\ \A k \in 1..Len(P) : input[P[k] + 1] = RComplex(N, 1, 0)
           /\ input[1] = RZero(N)
           /\ input[N + 1] = RZero(N)

\* C10: every decoded nibble is the index of a table entry at minimum
\* distance from its point, the lowest such index; (0,0) and (2,2) decode to
\* 0; an odd number of points fails
C10_NearestLowestIndex ==
    /\ pc = "qam_decoded" =>
          /\ Len(symbols) % 2 = 0
          /\ Len(result) * 2 = Len(symbols)
          /\ \A i \in 1..Len(symbols) :
                LET byte == result[(i + 1) \div 2]
                    k == IF i % 2 = 1 THEN byte \div 16 ELSE byte % 16
                    dk == distance(symbols[i], Qam16Point(2, GridUnit, k))
                IN \A m \in 0..15 :
                      LET dm == distance(symbols[i], Qam16Point(2, GridUnit, m))
                      IN /\ ~RLess(dm, dk)
                         /\ m < k => RLess(dk, dm)
          /\ symbols = <<RComplex(2, 0, 0), RComplex(2, 2 * GridUnit, 2 * GridUnit)>>
                => result = <<0>>
    /\ pc = "qam_decode_panic" => Len(symbols) % 2 = 1 /\ result = <<>>
    /\ (pc \in {"qam_decoded", "qam_decode_panic"} /\ Len(symbols) % 2 = 1)
          => pc = "qam_decode_panic"

C10_Witness ==
    /\ pc = "qam_decoded"
    /\ symbols = <<RComplex(2, 0, 0), RComplex(2, 2 * GridUnit, 2 * GridUnit)>>
    /\ result = <<0>>

====
